---- MODULE Spec2Model ----
(***************************************************************************)
(* A model of the SagaPay Go SDK: the API client (client.go, the parameter *)
(* and error types) and the webhook handler with its response helpers.     *)
(*                                                                         *)
(* Byte strings (HTTP bodies) are sequences of lexical units: the JSON     *)
(* punctuation "{" "}" ":" ",", the blank " ", the literals "null" and     *)
(* "1", and any other unit is a quoted JSON string with that content.      *)
(* Header values that are compared byte by byte (signatures) are sequences *)
(* of one-character strings.                                               *)
(***************************************************************************)
EXTENDS Integers, Sequences, FiniteSets, TLC

(***************************************************************************)
(* encoding/json, as far as the SDK uses it                                *)
(***************************************************************************)

Punct == {"{", "}", ":", ",", " "}

IsString(tok) == tok \notin Punct /\ tok \notin {"null", "1"}

\* time.Time.UnmarshalJSON accepts RFC 3339 strings only
ValidTimes == {"2025-01-01T00:00:00Z"}

JFail == [ok |-> FALSE, kind |-> "none", str |-> "", members |-> <<>>, next |-> 0]

JScalar(tok, nxt) ==
    [ok |-> TRUE,
     kind |-> IF tok = "null" THEN "null" ELSE IF tok = "1" THEN "num" ELSE "str",
     str |-> tok, members |-> <<>>, next |-> nxt]

JObject(ms, nxt) == [ok |-> TRUE, kind |-> "obj", str |-> "{}", members |-> ms, next |-> nxt]

RECURSIVE SkipWs(_, _)
SkipWs(t, i) == IF i <= Len(t) /\ t[i] = " " THEN SkipWs(t, i + 1) ELSE i

RECURSIVE ParseValue(_, _)
RECURSIVE ParseMembers(_, _, _, _)

\* one JSON value starting at position i of t (leading blanks skipped)
ParseValue(t, i) ==
    LET j == SkipWs(t, i) IN
    IF j > Len(t) THEN JFail
    ELSE IF t[j] = "{" THEN ParseMembers(t, j + 1, <<>>, TRUE)
    ELSE IF t[j] \in Punct THEN JFail
    ELSE JScalar(t[j], j + 1)

\* the members of an object whose "{" has been read; first: none read yet
ParseMembers(t, i, acc, first) ==
    LET j == SkipWs(t, i) IN
    IF j > Len(t) THEN JFail
    ELSE IF t[j] = "}" THEN (IF first THEN JObject(acc, j + 1) ELSE JFail)
    ELSE IF ~IsString(t[j]) THEN JFail
    ELSE LET k == SkipWs(t, j + 1) IN
         IF k > Len(t) \/ t[k] # ":" THEN JFail
         ELSE LET v == ParseValue(t, k + 1) IN
              IF ~v.ok THEN JFail
              ELSE LET m == SkipWs(t, v.next)
                       acc2 == Append(acc, [key |-> t[j], kind |-> v.kind, str |-> v.str])
                   IN  IF m > Len(t) THEN JFail
                       ELSE IF t[m] = "," THEN ParseMembers(t, m + 1, acc2, FALSE)
                       ELSE IF t[m] = "}" THEN JObject(acc2, m + 1)
                       ELSE JFail

\* whether a value of JSON kind `kind` can be stored in a Go field of type ty
Assignable(ty, kind, str) ==
    CASE ty = "string" -> kind = "str"
      [] ty = "time"   -> kind = "str" /\ str \in ValidTimes
      [] ty = "int"    -> kind = "num"
      [] ty = "array"  -> FALSE
      [] ty = "object" -> kind = "obj"
      [] OTHER         -> TRUE

ZeroStruct(types) == [f \in DOMAIN types |-> ""]

RECURSIVE DecodeMembers(_, _, _, _)
\* the object's members stored in order into the struct: unknown keys are
\* skipped, null leaves the field alone, a later duplicate overwrites, a
\* value of the wrong type is recorded as an error and decoding goes on
DecodeMembers(types, ms, i, acc) ==
    IF i > Len(ms) THEN acc
    ELSE LET m == ms[i] IN
         IF m.key \notin DOMAIN types \/ m.kind = "null"
         THEN DecodeMembers(types, ms, i + 1, acc)
         ELSE IF Assignable(types[m.key], m.kind, m.str)
         THEN DecodeMembers(types, ms, i + 1,
                  [acc EXCEPT !.fields = [@ EXCEPT ![m.key] = m.str]])
         ELSE DecodeMembers(types, ms, i + 1, [acc EXCEPT !.err = "type"])

\* a parsed value stored into a struct with the given field types
DecodeValue(types, v) ==
    IF v.kind = "null" THEN [err |-> "", fields |-> ZeroStruct(types)]
    ELSE IF v.kind = "obj"
    THEN DecodeMembers(types, v.members, 1, [err |-> "", fields |-> ZeroStruct(types)])
    ELSE [err |-> "type", fields |-> ZeroStruct(types)]

\* json.Unmarshal(data, &v): the whole input must be one JSON value
JsonUnmarshal(types, data) ==
    LET v == ParseValue(data, 1) IN
    IF ~v.ok \/ SkipWs(data, v.next) <= Len(data)
    THEN [err |-> "syntax", fields |-> ZeroStruct(types)]
    ELSE DecodeValue(types, v)

\* json.NewDecoder(r).Decode(&v): the first JSON value of the stream
JsonDecode(types, data) ==
    LET v == ParseValue(data, 1) IN
    IF ~v.ok THEN [err |-> "syntax", fields |-> ZeroStruct(types)]
    ELSE DecodeValue(types, v)

(***************************************************************************)
(* Webhook types and inputs                                                *)
(***************************************************************************)

\* the JSON fields of WebhookPayload and their Go types
WebhookPayloadFields ==
    [id |-> "string", type |-> "string", status |-> "string", address |-> "string",
     networkType |-> "string", amount |-> "string", udf |-> "string",
     txHash |-> "string", timestamp |-> "time"]

NilPayload == [nil |-> TRUE, fields |-> ZeroStruct(WebhookPayloadFields)]

NoError == [msg |-> "", wraps |-> ""]

Err(msg) == [msg |-> msg, wraps |-> ""]

Wrap(msg, cause) == [msg |-> msg, wraps |-> cause]

\* the secrets a handler is configured with (NewWebhookHandler does not
\* reject the empty one)
Secrets == <<"", "s2">>

\* request bodies a sender (or anybody else) may post
WebhookBodies ==
    { <<"{", "id", ":", "t1", ",", "status", ":", "COMPLETED", ",",
        "timestamp", ":", "2025-01-01T00:00:00Z", "}">>,
      <<"{", " ", "id", ":", "t1", ",", "status", ":", "COMPLETED", ",",
        "timestamp", ":", "2025-01-01T00:00:00Z", "}">>,
      <<"{", "id", ":", "t1", ",", "status", ":", "FAILED", "}">>,
      <<"{", "id", ":", "t1", ",", "status", ":", "COMPLETED", "}">>,
      <<"{", "id", ":", "1", "}">>,
      <<"{", "timestamp", ":", "yesterday", "}">>,
      <<"{", "id", ":">>,
      <<"null">>,
      <<>> }

(***************************************************************************)
(* crypto/hmac, crypto/sha256, encoding/hex: a keyed digest of 16 bits     *)
(* with the HMAC construction H(K ^ opad || H(K ^ ipad || m))              *)
(***************************************************************************)

\* the byte values of the lexical units
Units ==
    <<"{", "}", ":", ",", " ", "null", "1", "id", "t1", "status", "COMPLETED",
      "FAILED", "timestamp", "2025-01-01T00:00:00Z", "yesterday">>

UnitCode(tok) == CHOOSE i \in 1..Len(Units) : Units[i] = tok

KeyCode(key) == CHOOSE i \in 1..Len(Secrets) : Secrets[i] = key

DigestSpace == 256 * 256

RECURSIVE HashFrom(_, _, _)
HashFrom(h, bytes, i) ==
    IF i > Len(bytes) THEN h
    ELSE HashFrom((h * 131 + bytes[i] + 1) % DigestSpace, bytes, i + 1)

Hash(bytes) == HashFrom(7, bytes, 1)

\* mac := hmac.New(sha256.New, key); mac.Write(payload); mac.Sum(nil)
HmacSum(key, payload) ==
    LET inner == Hash(<<KeyCode(key) + 54>> \o [i \in 1..Len(payload) |-> UnitCode(payload[i])])
    IN  Hash(<<KeyCode(key) + 92, inner \div 256, inner % 256>>)

HexDigits == <<"0", "1", "2", "3", "4", "5", "6", "7", "8", "9", "a", "b", "c", "d", "e", "f">>

\* hex.EncodeToString: two lower-case digits per byte, high byte first
HexEncodeToString(n) ==
    <<HexDigits[(n \div 4096) + 1], HexDigits[((n \div 256) % 16) + 1],
      HexDigits[((n \div 16) % 16) + 1], HexDigits[(n % 16) + 1]>>

RECURSIVE OrOfDifferences(_, _, _)
OrOfDifferences(x, y, i) ==
    IF i > Len(x) THEN FALSE
    ELSE (x[i] # y[i]) \/ OrOfDifferences(x, y, i + 1)

\* a comparison that forgets the length check and compares the common prefix
HmacEqualPrefix(x, y) ==
    \A i \in 1..(IF Len(x) < Len(y) THEN Len(x) ELSE Len(y)) : x[i] = y[i]

\* hmac.Equal (subtle.ConstantTimeCompare): unequal lengths are unequal,
\* otherwise the differences of all positions are or-ed together
HmacEqual(x, y) ==
    IF Len(x) # Len(y) THEN FALSE ELSE ~OrOfDifferences(x, y, 1)

(***************************************************************************)
(* WebhookHandler                                                          *)
(***************************************************************************)

\* VerifySignature: the hex HMAC of the payload compared with the signature
VerifySignature(apiSecret, payload, signature) ==
    LET expectedSignature == HexEncodeToString(HmacSum(apiSecret, payload))
    IN  HmacEqual(expectedSignature, signature)

\* a ProcessWebhook that decodes the body before it verifies the signature
ProcessWebhookParseFirst(apiSecret, body, signature) ==
    LET d == JsonUnmarshal(WebhookPayloadFields, body) IN
    IF d.err # ""
    THEN [payload |-> NilPayload,
          err |-> Wrap("failed to parse webhook payload", d.err),
          verified |-> <<>>, unmarshalled |-> <<body>>]
    ELSE IF ~VerifySignature(apiSecret, body, signature)
    THEN [payload |-> NilPayload, err |-> Err("invalid webhook signature"),
          verified |-> <<body>>, unmarshalled |-> <<body>>]
    ELSE [payload |-> [nil |-> FALSE, fields |-> d.fields], err |-> NoError,
          verified |-> <<body>>, unmarshalled |-> <<body>>]

\* ProcessWebhook(body, signature). The result also records the byte strings
\* handed to VerifySignature and to json.Unmarshal.
ProcessWebhook(apiSecret, body, signature) ==
    IF ~VerifySignature(apiSecret, body, signature)
    THEN [payload |-> NilPayload, err |-> Err("invalid webhook signature"),
          verified |-> <<body>>, unmarshalled |-> <<>>]
    ELSE LET d == JsonUnmarshal(WebhookPayloadFields, body) IN
         IF d.err # ""
         THEN [payload |-> NilPayload,
               err |-> Wrap("failed to parse webhook payload", d.err),
               verified |-> <<body>>, unmarshalled |-> <<body>>]
         ELSE [payload |-> [nil |-> FALSE, fields |-> d.fields], err |-> NoError,
               verified |-> <<body>>, unmarshalled |-> <<body>>]

SignatureHeader == "x-sagapay-signature"

\* http.Header.Get: the empty string when the header is absent
HeaderGet(header, name) == IF name \in DOMAIN header THEN header[name] ELSE <<>>

\* the body with its blanks removed, as decoding and encoding again would do
Compact(body) == SelectSeq(body, LAMBDA tok : tok # " ")

\* a HandleRequest that verifies and decodes a re-serialized body
HandleRequestReserialized(apiSecret, r) ==
    LET signature == HeaderGet(r.header, SignatureHeader)
        res == ProcessWebhook(apiSecret, Compact(r.body), signature)
    IN  IF signature = <<>>
        THEN [payload |-> NilPayload, err |-> Err("missing SagaPay signature in headers"),
              read |-> FALSE, verified |-> <<>>, unmarshalled |-> <<>>]
        ELSE IF r.readFails
        THEN [payload |-> NilPayload, err |-> Wrap("failed to read request body", "read"),
              read |-> TRUE, verified |-> <<>>, unmarshalled |-> <<>>]
        ELSE [payload |-> res.payload, err |-> res.err, read |-> TRUE,
              verified |-> res.verified, unmarshalled |-> res.unmarshalled]

\* HandleRequest(r). r.body is what io.ReadAll yields, r.readFails whether it
\* ends in an error; read: whether the body was read at all.
HandleRequest(apiSecret, r) ==
    LET signature == HeaderGet(r.header, SignatureHeader) IN
    IF signature = <<>>
    THEN [payload |-> NilPayload, err |-> Err("missing SagaPay signature in headers"),
          read |-> FALSE, verified |-> <<>>, unmarshalled |-> <<>>]
    ELSE IF r.readFails
    THEN [payload |-> NilPayload, err |-> Wrap("failed to read request body", "read"),
          read |-> TRUE, verified |-> <<>>, unmarshalled |-> <<>>]
    ELSE IF ~VerifySignature(apiSecret, r.body, signature)
    THEN [payload |-> NilPayload, err |-> Err("invalid webhook signature"),
          read |-> TRUE, verified |-> <<r.body>>, unmarshalled |-> <<>>]
    ELSE LET d == JsonUnmarshal(WebhookPayloadFields, r.body) IN
         IF d.err # ""
         THEN [payload |-> NilPayload,
               err |-> Wrap("failed to parse webhook payload", d.err),
               read |-> TRUE, verified |-> <<r.body>>, unmarshalled |-> <<r.body>>]
         ELSE [payload |-> [nil |-> FALSE, fields |-> d.fields], err |-> NoError,
               read |-> TRUE, verified |-> <<r.body>>, unmarshalled |-> <<r.body>>]

(***************************************************************************)
(* http.ResponseWriter and the response helpers                            *)
(***************************************************************************)

StatusOK == 200

FreshWriter == [wroteHeader |-> FALSE, status |-> 0, contentType |-> "", body |-> <<>>]

\* w.Header().Set("Content-Type", v): no effect once the header is written
SetContentType(rw, v) == IF rw.wroteHeader THEN rw ELSE [rw EXCEPT !.contentType = v]

\* w.WriteHeader(code): the first call decides the status
WriteHeader(rw, code) ==
    IF rw.wroteHeader THEN rw ELSE [rw EXCEPT !.wroteHeader = TRUE, !.status = code]

\* json.NewEncoder(w).Encode(doc): a Write, which writes the header with
\* status 200 if none was written
EncodeTo(rw, doc) ==
    LET rw2 == WriteHeader(rw, StatusOK) IN [rw2 EXCEPT !.body = Append(@, doc)]

SuccessStatus == StatusOK

\* a failure acknowledged with 400 Bad Request
StatusBadRequest == StatusOK + 200

ErrorStatus == StatusOK

SendSuccessResponseTo(rw) ==
    EncodeTo(WriteHeader(SetContentType(rw, "application/json"), SuccessStatus),
             [received |-> TRUE, hasError |-> FALSE, error |-> NoError])

SendErrorResponseTo(rw, err) ==
    EncodeTo(WriteHeader(SetContentType(rw, "application/json"), ErrorStatus),
             [received |-> FALSE, hasError |-> TRUE, error |-> err])

(***************************************************************************)
(* Client: types                                                           *)
(***************************************************************************)

DefaultBaseURL == "https://api.sagapay.net"

\* DefaultTimeout, in seconds
DefaultTimeout == 30

\* net/url.Parse on the strings the model uses: ok is FALSE where Parse
\* returns an error; a string without a scheme parses as a relative reference
UrlTable ==
    { [raw |-> "https://api.sagapay.net", ok |-> TRUE, scheme |-> "https",
       host |-> "api.sagapay.net", path |-> ""],
      [raw |-> "http://localhost:8080/v1", ok |-> TRUE, scheme |-> "http",
       host |-> "localhost:8080", path |-> "/v1"],
      [raw |-> "api.sagapay.net", ok |-> TRUE, scheme |-> "",
       host |-> "", path |-> "api.sagapay.net"],
      [raw |-> "://api.sagapay.net", ok |-> FALSE, scheme |-> "",
       host |-> "", path |-> ""],
      [raw |-> "http://[::1", ok |-> FALSE, scheme |-> "",
       host |-> "", path |-> ""],
      [raw |-> "/create-deposit", ok |-> TRUE, scheme |-> "",
       host |-> "", path |-> "/create-deposit"],
      [raw |-> "/create-withdrawal", ok |-> TRUE, scheme |-> "",
       host |-> "", path |-> "/create-withdrawal"],
      [raw |-> "/check-transaction-status", ok |-> TRUE, scheme |-> "",
       host |-> "", path |-> "/check-transaction-status"],
      [raw |-> "/fetch-wallet-balance", ok |-> TRUE, scheme |-> "",
       host |-> "", path |-> "/fetch-wallet-balance"] }

UrlParse(raw) == CHOOSE u \in UrlTable : u.raw = raw

\* a URL is absolute when it has a scheme
IsAbs(u) == u.scheme # ""

NilURL == [raw |-> "", ok |-> FALSE, scheme |-> "", host |-> "", path |-> ""]

\* base.ResolveReference(ref) for a reference without scheme and host whose
\* path starts with "/": scheme and host of the base, path of the reference
ResolveReference(base, ref) ==
    [scheme |-> base.scheme, host |-> base.host, path |-> ref.path]

\* *http.Client: custom is FALSE for the one NewClient builds
NilHTTPClient == [nil |-> TRUE, custom |-> FALSE, Timeout |-> 0]

NilClient ==
    [nil |-> TRUE, client |-> NilHTTPClient, baseURL |-> NilURL,
     apiKey |-> "", apiSecret |-> ""]

\* error values of the client: kind "nil" is the nil error; an APIError
\* carries Error, Message, Data and Code; status is the argument of the
\* generic "HTTP error: %d" message
NilErr ==
    [kind |-> "nil", msg |-> "", Error |-> "", Message |-> "", Data |-> "",
     Code |-> 0, status |-> 0]

PlainErr(kind, msg) == [NilErr EXCEPT !.kind = kind, !.msg = msg]

\* the JSON fields of APIError; Code is tagged json:"-" and is never decoded
APIErrorFields == [error |-> "string", message |-> "string", data |-> "any"]

DepositResponseFields ==
    [id |-> "string", address |-> "string", expiresAt |-> "time",
     amount |-> "string", status |-> "string"]

WithdrawalResponseFields == [id |-> "string", status |-> "string", fee |-> "string"]

TransactionStatusResponseFields ==
    [address |-> "string", transactionType |-> "string", count |-> "int",
     transactions |-> "array"]

WalletBalanceResponseFields ==
    [address |-> "string", networkType |-> "string", contractAddress |-> "string",
     token |-> "object", balance |-> "object"]

ResponseFields(op) ==
    CASE op = "CreateDeposit" -> DepositResponseFields
      [] op = "CreateWithdrawal" -> WithdrawalResponseFields
      [] op = "CheckTransactionStatus" -> TransactionStatusResponseFields
      [] OTHER -> WalletBalanceResponseFields

(***************************************************************************)
(* NewClient                                                               *)
(***************************************************************************)

\* the base URL NewClient parses: the default when the configured one is empty
ResolvedBaseURL(config) ==
    IF config.BaseURL # "" THEN config.BaseURL ELSE DefaultBaseURL

\* a choice of timeout that takes a zero timeout as given
ResolvedHTTPClientZeroGiven(config) ==
    IF ~config.HTTPClient.nil THEN config.HTTPClient
    ELSE [nil |-> FALSE, custom |-> FALSE,
          Timeout |-> IF config.Timeout >= 0 THEN config.Timeout ELSE DefaultTimeout]

\* the transport NewClient uses: the given one, or a new one with the
\* configured timeout, 30 seconds unless a positive one is given
ResolvedHTTPClient(config) ==
    IF ~config.HTTPClient.nil THEN config.HTTPClient
    ELSE [nil |-> FALSE, custom |-> FALSE,
          Timeout |-> IF config.Timeout > 0 THEN config.Timeout ELSE DefaultTimeout]

\* a NewClient that forgets to require the API secret
NewClientNoSecretCheck(config) ==
    IF config.APIKey = ""
    THEN [client |-> NilClient, err |-> PlainErr("config", "API key is required")]
    ELSE LET parsedURL == UrlParse(ResolvedBaseURL(config)) IN
         IF ~parsedURL.ok
         THEN [client |-> NilClient, err |-> PlainErr("config", "invalid base URL")]
         ELSE [client |-> [nil |-> FALSE, client |-> ResolvedHTTPClient(config),
                           baseURL |-> parsedURL, apiKey |-> config.APIKey,
                           apiSecret |-> config.APISecret],
               err |-> NilErr]

NewClient(config) ==
    IF config.APIKey = ""
    THEN [client |-> NilClient, err |-> PlainErr("config", "API key is required")]
    ELSE IF config.APISecret = ""
    THEN [client |-> NilClient, err |-> PlainErr("config", "API secret is required")]
    ELSE LET parsedURL == UrlParse(ResolvedBaseURL(config)) IN
         IF ~parsedURL.ok
         THEN [client |-> NilClient, err |-> PlainErr("config", "invalid base URL")]
         ELSE [client |-> [nil |-> FALSE, client |-> ResolvedHTTPClient(config),
                           baseURL |-> parsedURL, apiKey |-> config.APIKey,
                           apiSecret |-> config.APISecret],
               err |-> NilErr]

(***************************************************************************)
(* Parameter validation                                                    *)
(***************************************************************************)

\* a Validate that forgets the amount
DepositValidateNoAmount(p) ==
    IF p.NetworkType = "" THEN "networkType is required"
    ELSE IF p.ContractAddress = "" THEN "contractAddress is required"
    ELSE IF p.IPNUrl = "" THEN "ipnUrl is required"
    ELSE ""

\* CreateDepositParams.Validate: the message of the error, "" for nil
DepositValidate(p) ==
    IF p.NetworkType = "" THEN "networkType is required"
    ELSE IF p.ContractAddress = "" THEN "contractAddress is required"
    ELSE IF p.Amount = "" THEN "amount is required"
    ELSE IF p.IPNUrl = "" THEN "ipnUrl is required"
    ELSE ""

\* CreateWithdrawalParams.Validate
WithdrawalValidate(p) ==
    IF p.NetworkType = "" THEN "networkType is required"
    ELSE IF p.ContractAddress = "" THEN "contractAddress is required"
    ELSE IF p.Address = "" THEN "address is required"
    ELSE IF p.Amount = "" THEN "amount is required"
    ELSE IF p.IPNUrl = "" THEN "ipnUrl is required"
    ELSE ""

\* the address check of CheckTransactionStatus and FetchWalletBalance
AddressValidate(address) == IF address = "" THEN "address is required" ELSE ""

(***************************************************************************)
(* sendRequestWithQuery, in its two halves around c.client.Do              *)
(***************************************************************************)

MethodGet == "GET"

MethodPost == "POST"

NilRequest ==
    [nil |-> TRUE, method |-> "", scheme |-> "", host |-> "", path |-> "",
     query |-> <<>>, header |-> <<>>, body |-> <<>>, hasBody |-> FALSE]

\* url.Values.Encode: the pairs ordered by key
QueryKeyOrder == <<"address", "contractAddress", "networkType", "type">>

QueryEncode(values) ==
    LET Pick(k) == SelectSeq(values, LAMBDA kv : kv[1] = k)
    IN  Pick(QueryKeyOrder[1]) \o Pick(QueryKeyOrder[2]) \o
        Pick(QueryKeyOrder[3]) \o Pick(QueryKeyOrder[4])

\* the credential headers exchanged
RequestHeaderSwapped(c) ==
    <<<<"Content-Type", "application/json">>, <<"Accept", "application/json">>,
      <<"x-api-key", c.apiSecret>>, <<"x-api-secret", c.apiKey>>>>

\* the four headers set on every request
RequestHeader(c) ==
    <<<<"Content-Type", "application/json">>, <<"Accept", "application/json">>,
      <<"x-api-key", c.apiKey>>, <<"x-api-secret", c.apiSecret>>>>

\* the first half: URL, body and headers of the request. hasQuery and
\* hasBody tell a nil query or body from an empty one.
BuildRequest(c, ctx, method, path, hasQuery, query, hasBody, body) ==
    LET u == UrlParse(path) IN
    IF ~u.ok THEN [err |-> PlainErr("request", "parse"), req |-> NilRequest]
    ELSE LET r == ResolveReference(c.baseURL, u) IN
         IF ctx = "nil"
         THEN [err |-> PlainErr("request", "net/http: nil Context"), req |-> NilRequest]
         ELSE [err |-> NilErr,
               req |-> [nil |-> FALSE, method |-> method, scheme |-> r.scheme,
                        host |-> r.host, path |-> r.path,
                        query |-> IF hasQuery THEN QueryEncode(query) ELSE <<>>,
                        header |-> RequestHeader(c),
                        body |-> IF hasBody THEN body ELSE <<>>,
                        hasBody |-> hasBody]]

\* the APIError decoded from an error body
DecodedAPIError(fields, statusCode) ==
    [NilErr EXCEPT !.kind = "api", !.msg = "API error: %s - %s",
                   !.Error = fields.error, !.Message = fields.message,
                   !.Data = fields.data]

\* a second half that returns the APIError whether or not the error body
\* could be decoded
ReadResponseKeepsAPIError(op, resp) ==
    IF resp.status >= 400
    THEN [err |-> DecodedAPIError(JsonDecode(APIErrorFields, resp.body).fields,
                                  resp.status),
          decoded |-> FALSE, fields |-> <<>>]
    ELSE LET d == JsonDecode(ResponseFields(op), resp.body) IN
         IF d.err # ""
         THEN [err |-> PlainErr("decode", d.err), decoded |-> FALSE, fields |-> <<>>]
         ELSE [err |-> NilErr, decoded |-> TRUE, fields |-> d.fields]

\* the second half: the response turned into the error and the decoded
\* value of the call
ReadResponse(op, resp) ==
    IF resp.status >= 400
    THEN LET d == JsonDecode(APIErrorFields, resp.body) IN
         IF d.err # ""
         THEN [err |-> [PlainErr("http", "HTTP error: %d - failed to parse error response")
                           EXCEPT !.status = resp.status],
               decoded |-> FALSE, fields |-> <<>>]
         ELSE [err |-> DecodedAPIError(d.fields, resp.status),
               decoded |-> FALSE, fields |-> <<>>]
    ELSE LET d == JsonDecode(ResponseFields(op), resp.body) IN
         IF d.err # ""
         THEN [err |-> PlainErr("decode", d.err), decoded |-> FALSE, fields |-> <<>>]
         ELSE [err |-> NilErr, decoded |-> TRUE, fields |-> d.fields]

(***************************************************************************)
(* The request each operation builds                                       *)
(***************************************************************************)

\* json.Encoder.Encode of the parameter structs: udf and type are omitted
\* when empty
OmitEmpty(key, value) == IF value = "" THEN <<>> ELSE <<<<key, value>>>>

DepositBody(p) ==
    <<<<"networkType", p.NetworkType>>, <<"contractAddress", p.ContractAddress>>,
      <<"amount", p.Amount>>, <<"ipnUrl", p.IPNUrl>>>>
    \o OmitEmpty("udf", p.UDF) \o OmitEmpty("type", p.Type)

WithdrawalBody(p) ==
    <<<<"networkType", p.NetworkType>>, <<"contractAddress", p.ContractAddress>>,
      <<"address", p.Address>>, <<"amount", p.Amount>>, <<"ipnUrl", p.IPNUrl>>>>
    \o OmitEmpty("udf", p.UDF)

StatusQuery(p) == <<<<"address", p.Address>>, <<"type", p.TransactionType>>>>

\* a query that always names the contract address
BalanceQueryAlways(p) ==
    <<<<"address", p.Address>>, <<"networkType", p.NetworkType>>,
      <<"contractAddress", p.ContractAddress>>>>

BalanceQuery(p) ==
    <<<<"address", p.Address>>, <<"networkType", p.NetworkType>>>>
    \o (IF p.ContractAddress # "" THEN <<<<"contractAddress", p.ContractAddress>>>> ELSE <<>>)

\* operations that skip their validation
ValidateNothing(op, p) == ""

\* the local validation of each operation: the error message, "" for none
Validate(op, p) ==
    CASE op = "CreateDeposit" -> DepositValidate(p)
      [] op = "CreateWithdrawal" -> WithdrawalValidate(p)
      [] OTHER -> AddressValidate(p.Address)

\* the call of sendRequest / sendRequestWithQuery each operation makes
OperationRequest(c, op, ctx, p) ==
    CASE op = "CreateDeposit" ->
           BuildRequest(c, ctx, MethodPost, "/create-deposit", FALSE, <<>>, TRUE, DepositBody(p))
      [] op = "CreateWithdrawal" ->
           BuildRequest(c, ctx, MethodPost, "/create-withdrawal", FALSE, <<>>, TRUE, WithdrawalBody(p))
      [] op = "CheckTransactionStatus" ->
           BuildRequest(c, ctx, MethodGet, "/check-transaction-status", TRUE, StatusQuery(p), FALSE, <<>>)
      [] OTHER ->
           BuildRequest(c, ctx, MethodGet, "/fetch-wallet-balance", TRUE, BalanceQuery(p), FALSE, <<>>)

(***************************************************************************)
(* Inputs                                                                  *)
(***************************************************************************)

Callers == {1, 2}

\* the caller of the sequential specifications
MainCaller == CHOOSE i \in Callers : \A j \in Callers : i <= j

HTTPClients == {NilHTTPClient, [nil |-> FALSE, custom |-> TRUE, Timeout |-> 0]}

Configs ==
    [BaseURL : {"", "https://api.sagapay.net", "http://localhost:8080/v1",
                "api.sagapay.net", "://api.sagapay.net", "http://[::1"},
     APIKey : {"", "k"}, APISecret : {"", "s"},
     Timeout : {-1, 0, 5}, HTTPClient : HTTPClients]

NoConfig ==
    [BaseURL |-> "", APIKey |-> "", APISecret |-> "", Timeout |-> 0,
     HTTPClient |-> NilHTTPClient]

Contexts == {"background", "nil"}

NoParams ==
    [NetworkType |-> "", ContractAddress |-> "", Address |-> "", Amount |-> "",
     IPNUrl |-> "", UDF |-> "", Type |-> "", TransactionType |-> ""]

DepositParams ==
    [NetworkType : {"", "BEP20"}, ContractAddress : {"", "0"}, Address : {""},
     Amount : {"", "1.5"}, IPNUrl : {"", "https://x/webhook"},
     UDF : {"", "order-123"}, Type : {"", "TEMPORARY"}, TransactionType : {""}]

WithdrawalParams ==
    [NetworkType : {"", "ERC20"}, ContractAddress : {"", "0xdAC1"},
     Address : {"", "0x742d"}, Amount : {"", "10.5"},
     IPNUrl : {"", "https://x/webhook"}, UDF : {"", "withdrawal-456"},
     Type : {""}, TransactionType : {""}]

StatusParams ==
    [NetworkType : {""}, ContractAddress : {""}, Address : {"", "0x742d"},
     Amount : {""}, IPNUrl : {""}, UDF : {""}, Type : {""},
     TransactionType : {"", "deposit", "withdrawal"}]

BalanceParams ==
    [NetworkType : {"", "ERC20"}, ContractAddress : {"", "0xdAC1"},
     Address : {"", "0x742d"}, Amount : {""}, IPNUrl : {""}, UDF : {""},
     Type : {""}, TransactionType : {""}]

\* bodies the gateway (or anything in its place) may answer with
ResponseBodies ==
    { <<"{", "id", ":", "d1", ",", "address", ":", "bnb1", ",", "expiresAt", ":",
        "2025-01-01T00:00:00Z", ",", "amount", ":", "1.5", ",", "status", ":",
        "PENDING", "}">>,
      <<"{", "error", ":", "unauthorized", ",", "message", ":", "bad key", "}">>,
      <<"{", "error", ":", "1", "}">>,
      <<"{", "}">>,
      <<"oops">>,
      <<"{">>,
      <<>> }

Statuses == {200, 399, 400, 401}

NoResponse == [kind |-> "none", status |-> 0, body |-> <<>>]

TransportFailure == [kind |-> "error", status |-> 0, body |-> <<>>]

Responses == [kind : {"response"}, status : Statuses, body : ResponseBodies]

\* what c.client.Do can return for a request: the transport NewClient
\* builds refuses a URL without an http or https scheme
TransportOutcomes(c, req) ==
    IF ~c.client.custom /\ req.scheme \notin {"http", "https"}
    THEN {TransportFailure}
    ELSE {TransportFailure} \cup Responses

NoReturn == [returned |-> FALSE, nilResponse |-> TRUE, fields |-> <<>>, err |-> NilErr]

IdleCall == [op |-> "", ctx |-> "", params |-> NoParams]

\* the signatures a request may carry: for each secret and body the right
\* one, the same in upper case, shortened and lengthened
UpperCase(ch) ==
    CASE ch = "a" -> "A" [] ch = "b" -> "B" [] ch = "c" -> "C"
      [] ch = "d" -> "D" [] ch = "e" -> "E" [] ch = "f" -> "F" [] OTHER -> ch

SignatureOf(secret, body) == HexEncodeToString(HmacSum(secret, body))

SecretSet == {Secrets[i] : i \in 1..Len(Secrets)}

Signatures ==
    UNION { LET sig == SignatureOf(k, b) IN
            {sig, [i \in 1..Len(sig) |-> UpperCase(sig[i])],
             SubSeq(sig, 1, Len(sig) - 1), sig \o <<"0">>}
            : <<k, b>> \in SecretSet \X WebhookBodies }

NoHeader == [n \in {} |-> <<>>]

Requests ==
    [header : {NoHeader} \cup {[n \in {SignatureHeader} |-> sig] : sig \in Signatures \cup {<<>>}},
     body : WebhookBodies, readFails : BOOLEAN]

NoWebhook ==
    [op |-> "", header |-> NoHeader, body |-> <<>>, signature |-> <<>>,
     readFails |-> FALSE, valid |-> FALSE, payload |-> NilPayload, err |-> NoError,
     read |-> FALSE, verified |-> <<>>, unmarshalled |-> <<>>]

NoRequest == [header |-> NoHeader, body |-> <<>>, readFails |-> FALSE]

\* a server goroutine outside HandleRequest
NotServing ==
    [stage |-> "idle", r |-> NoRequest,
     result |-> [payload |-> NilPayload, err |-> NoError, read |-> FALSE,
                 verified |-> <<>>, unmarshalled |-> <<>>]]

\* the inputs of overlapping calls: one configuration, one call or two of
\* each operation, three answers of the gateway, one webhook secret and
\* three notifications
ConcurrentConfigs ==
    {cfg \in Configs : /\ cfg.BaseURL = "" /\ cfg.APIKey = "k" /\ cfg.APISecret = "s"
                       /\ cfg.Timeout = 0 /\ cfg.HTTPClient.nil}

ConcurrentDeposits ==
    {p \in DepositParams : /\ p.NetworkType # "" /\ p.ContractAddress # ""
                           /\ p.IPNUrl # "" /\ p.UDF = "" /\ p.Type = ""}

ConcurrentWithdrawals ==
    {p \in WithdrawalParams : /\ p.NetworkType # "" /\ p.ContractAddress # ""
                              /\ p.Address # "" /\ p.Amount # ""
                              /\ p.IPNUrl # "" /\ p.UDF # ""}

ConcurrentStatuses ==
    {p \in StatusParams : p.Address # "" /\ p.TransactionType = "deposit"}

ConcurrentBalances ==
    {p \in BalanceParams : /\ p.Address # "" /\ p.NetworkType # ""
                           /\ p.ContractAddress = ""}

ConcurrentOutcomes ==
    {TransportFailure} \cup
    {o \in Responses :
        \/ o.status = 200 /\ Len(o.body) > 5 /\ o.body[2] = "id"
        \/ o.status = 401 /\ Len(o.body) > 5 /\ o.body[2] = "error"}

ConcurrentSecrets == {k \in SecretSet : k # ""}

ConcurrentRequests ==
    {r \in Requests :
        /\ ~r.readFails
        /\ r.body = <<"{", "id", ":", "t1", ",", "status", ":", "COMPLETED", "}">>
        /\ \/ r.header = NoHeader
           \/ \E k \in ConcurrentSecrets :
                 \/ r.header[SignatureHeader] = SignatureOf(k, r.body)
                 \/ r.header[SignatureHeader] = SignatureOf(k, r.body) \o <<"0">>}

(***************************************************************************)
(* State                                                                   *)
(***************************************************************************)

VARIABLES
    config,     \* the Config of the last NewClient call
    client,     \* the *Client it returned (NilClient: none)
    newErr,     \* the error it returned
    pc,         \* per caller: "idle", "do" (inside c.client.Do), "done"
    call,       \* per caller: operation, context and arguments of the call
    pending,    \* per caller: the request built for the call
    sent,       \* per caller: the requests the call handed to the transport
    got,        \* per caller: what the transport returned
    ret,        \* per caller: what the call returned
    handler,    \* the WebhookHandler
    wh,         \* the last webhook call: inputs and result
    w,          \* the http.ResponseWriter of the current webhook request
    serving     \* per caller: the HandleRequest a server goroutine is inside

clientVars == <<config, client, newErr, pc, call, pending, sent, got, ret>>

webhookVars == <<handler, wh, w, serving>>

vars == <<config, client, newErr, pc, call, pending, sent, got, ret, handler, wh, w,
          serving>>

NilHandler == [nil |-> TRUE, apiSecret |-> ""]

Init ==
    /\ config = NoConfig
    /\ client = NilClient
    /\ newErr = NilErr
    /\ pc = [i \in Callers |-> "idle"]
    /\ call = [i \in Callers |-> IdleCall]
    /\ pending = [i \in Callers |-> NilRequest]
    /\ sent = [i \in Callers |-> <<>>]
    /\ got = [i \in Callers |-> NoResponse]
    /\ ret = [i \in Callers |-> NoReturn]
    /\ handler = NilHandler
    /\ wh = NoWebhook
    /\ w = FreshWriter
    /\ serving = [i \in Callers |-> NotServing]

(***************************************************************************)
(* Client actions                                                          *)
(***************************************************************************)

\* NewClient(config), while no client has been built
NewClientCall(cfg) ==
    /\ client.nil
    /\ LET r == NewClient(cfg) IN
       /\ config' = cfg
       /\ client' = r.client
       /\ newErr' = r.err
    /\ UNCHANGED <<pc, call, pending, sent, got, ret, webhookVars>>

\* an operation up to its call of c.client.Do: validation, then the request;
\* a failure of either returns at once
Begin(i, op, ctx, p) ==
    /\ ~client.nil
    /\ pc[i] = "idle"
    /\ call' = [call EXCEPT ![i] = [op |-> op, ctx |-> ctx, params |-> p]]
    /\ LET v == Validate(op, p)
           b == OperationRequest(client, op, ctx, p)
       IN  IF v # ""
           THEN /\ ret' = [ret EXCEPT ![i] = [NoReturn EXCEPT !.returned = TRUE,
                                                !.err = PlainErr("validation", v)]]
                /\ pc' = [pc EXCEPT ![i] = "done"]
                /\ UNCHANGED pending
           ELSE IF b.err.kind # "nil"
           THEN /\ ret' = [ret EXCEPT ![i] = [NoReturn EXCEPT !.returned = TRUE,
                                                !.err = b.err]]
                /\ pc' = [pc EXCEPT ![i] = "done"]
                /\ UNCHANGED pending
           ELSE /\ pending' = [pending EXCEPT ![i] = b.req]
                /\ pc' = [pc EXCEPT ![i] = "do"]
                /\ UNCHANGED ret
    /\ UNCHANGED <<config, client, newErr, sent, got, webhookVars>>

CreateDeposit(i, ctx, p) ==
    /\ p \in DepositParams
    /\ Begin(i, "CreateDeposit", ctx, p)

CreateWithdrawal(i, ctx, p) ==
    /\ p \in WithdrawalParams
    /\ Begin(i, "CreateWithdrawal", ctx, p)

CheckTransactionStatus(i, ctx, p) ==
    /\ p \in StatusParams
    /\ Begin(i, "CheckTransactionStatus", ctx, p)

FetchWalletBalance(i, ctx, p) ==
    /\ p \in BalanceParams
    /\ Begin(i, "FetchWalletBalance", ctx, p)

\* a Do that sends the request again when the transport fails
DoWithRetry(i, outcome) ==
    /\ pc[i] = "do"
    /\ outcome \in TransportOutcomes(client, pending[i])
    /\ sent' = [sent EXCEPT ![i] = Append(@, pending[i])]
    /\ got' = [got EXCEPT ![i] = outcome]
    /\ IF outcome.kind = "error"
       THEN UNCHANGED <<ret, pc>>
       ELSE /\ ret' = [ret EXCEPT ![i] =
                   LET r == ReadResponse(call[i].op, outcome) IN
                   IF r.err.kind # "nil"
                   THEN [NoReturn EXCEPT !.returned = TRUE, !.err = r.err]
                   ELSE [returned |-> TRUE, nilResponse |-> FALSE, fields |-> r.fields,
                         err |-> NilErr]]
            /\ pc' = [pc EXCEPT ![i] = "done"]
    /\ UNCHANGED <<config, client, newErr, call, pending, webhookVars>>

\* a Do that keeps the result of the call in one place for all callers
DoSharedResult(i, outcome) ==
    /\ pc[i] = "do"
    /\ outcome \in TransportOutcomes(client, pending[i])
    /\ sent' = [sent EXCEPT ![i] = Append(@, pending[i])]
    /\ got' = [got EXCEPT ![i] = outcome]
    /\ LET result ==
               IF outcome.kind = "error"
               THEN [NoReturn EXCEPT !.returned = TRUE, !.err = PlainErr("transport", "Do")]
               ELSE LET r == ReadResponse(call[i].op, outcome) IN
                    IF r.err.kind # "nil"
                    THEN [NoReturn EXCEPT !.returned = TRUE, !.err = r.err]
                    ELSE [returned |-> TRUE, nilResponse |-> FALSE, fields |-> r.fields,
                          err |-> NilErr]
       IN  ret' = [j \in Callers |-> IF j = i \/ pc[j] = "done" THEN result ELSE ret[j]]
    /\ pc' = [pc EXCEPT ![i] = "done"]
    /\ UNCHANGED <<config, client, newErr, call, pending, webhookVars>>

\* a Do whose operation returns the response it decoded into together with
\* the error
DoReturnsBoth(i, outcome) ==
    /\ pc[i] = "do"
    /\ outcome \in TransportOutcomes(client, pending[i])
    /\ sent' = [sent EXCEPT ![i] = Append(@, pending[i])]
    /\ got' = [got EXCEPT ![i] = outcome]
    /\ ret' = [ret EXCEPT ![i] =
           IF outcome.kind = "error"
           THEN [NoReturn EXCEPT !.returned = TRUE, !.err = PlainErr("transport", "Do")]
           ELSE LET r == ReadResponse(call[i].op, outcome) IN
                [returned |-> TRUE, nilResponse |-> FALSE, fields |-> r.fields,
                 err |-> r.err]]
    /\ pc' = [pc EXCEPT ![i] = "done"]
    /\ UNCHANGED <<config, client, newErr, call, pending, webhookVars>>

\* c.client.Do(req) and the rest of the operation: the request goes to the
\* transport, its answer is read and the operation returns
Do(i, outcome) ==
    /\ pc[i] = "do"
    /\ outcome \in TransportOutcomes(client, pending[i])
    /\ sent' = [sent EXCEPT ![i] = Append(@, pending[i])]
    /\ got' = [got EXCEPT ![i] = outcome]
    /\ ret' = [ret EXCEPT ![i] =
           IF outcome.kind = "error"
           THEN [NoReturn EXCEPT !.returned = TRUE, !.err = PlainErr("transport", "Do")]
           ELSE LET r == ReadResponse(call[i].op, outcome) IN
                IF r.err.kind # "nil"
                THEN [NoReturn EXCEPT !.returned = TRUE, !.err = r.err]
                ELSE [returned |-> TRUE, nilResponse |-> FALSE, fields |-> r.fields,
                      err |-> NilErr]]
    /\ pc' = [pc EXCEPT ![i] = "done"]
    /\ UNCHANGED <<config, client, newErr, call, pending, webhookVars>>

\* the caller takes the result; its next call starts afresh
Return(i) ==
    /\ pc[i] = "done"
    /\ pc' = [pc EXCEPT ![i] = "idle"]
    /\ call' = [call EXCEPT ![i] = IdleCall]
    /\ pending' = [pending EXCEPT ![i] = NilRequest]
    /\ sent' = [sent EXCEPT ![i] = <<>>]
    /\ got' = [got EXCEPT ![i] = NoResponse]
    /\ ret' = [ret EXCEPT ![i] = NoReturn]
    /\ UNCHANGED <<config, client, newErr, webhookVars>>

(***************************************************************************)
(* Webhook actions                                                         *)
(***************************************************************************)

MaxWrites == 1

NewWebhookHandler(apiSecret) ==
    /\ handler.nil
    /\ handler' = [nil |-> FALSE, apiSecret |-> apiSecret]
    /\ UNCHANGED <<wh, w, serving, clientVars>>

\* h.VerifySignature(payload, signature)
VerifySignatureCall(payload, signature) ==
    /\ ~handler.nil
    /\ wh.op = ""
    /\ wh' = [NoWebhook EXCEPT !.op = "VerifySignature", !.body = payload,
                               !.signature = signature,
                               !.valid = VerifySignature(handler.apiSecret, payload, signature),
                               !.verified = <<payload>>]
    /\ w' = FreshWriter
    /\ UNCHANGED <<handler, serving, clientVars>>

\* h.ProcessWebhook(body, signature)
ProcessWebhookCall(body, signature) ==
    /\ ~handler.nil
    /\ wh.op = ""
    /\ LET r == ProcessWebhook(handler.apiSecret, body, signature) IN
       wh' = [op |-> "ProcessWebhook", header |-> NoHeader, body |-> body,
              signature |-> signature, readFails |-> FALSE, valid |-> FALSE,
              payload |-> r.payload, err |-> r.err, read |-> FALSE,
              verified |-> r.verified, unmarshalled |-> r.unmarshalled]
    /\ w' = FreshWriter
    /\ UNCHANGED <<handler, serving, clientVars>>

\* h.HandleRequest(r) for an incoming request r, which has a new writer
HandleRequestCall(r) ==
    /\ ~handler.nil
    /\ wh.op = ""
    /\ LET res == HandleRequest(handler.apiSecret, r) IN
       wh' = [op |-> "HandleRequest", header |-> r.header, body |-> r.body,
              signature |-> HeaderGet(r.header, SignatureHeader),
              readFails |-> r.readFails, valid |-> FALSE, payload |-> res.payload,
              err |-> res.err, read |-> res.read, verified |-> res.verified,
              unmarshalled |-> res.unmarshalled]
    /\ w' = FreshWriter
    /\ UNCHANGED <<handler, serving, clientVars>>

\* SendSuccessResponse(w)
SendSuccessResponse ==
    /\ wh.op # ""
    /\ Len(w.body) < MaxWrites
    /\ w' = SendSuccessResponseTo(w)
    /\ UNCHANGED <<handler, wh, serving, clientVars>>

\* SendErrorResponse(w, err) with the error the webhook call returned
SendErrorResponse ==
    /\ wh.op # ""
    /\ wh.err # NoError
    /\ Len(w.body) < MaxWrites
    /\ w' = SendErrorResponseTo(w, wh.err)
    /\ UNCHANGED <<handler, wh, serving, clientVars>>

\* the webhook call and its acknowledgment are over; the next request
\* starts afresh
WebhookDone ==
    /\ wh.op # ""
    /\ wh' = NoWebhook
    /\ w' = FreshWriter
    /\ UNCHANGED <<handler, serving, clientVars>>

\* a server goroutine enters h.HandleRequest(r) with the request it was
\* given
HandleRequestEnter(i, r) ==
    /\ ~handler.nil
    /\ serving[i].stage = "idle"
    /\ serving' = [serving EXCEPT ![i] = [NotServing EXCEPT !.stage = "read", !.r = r]]
    /\ UNCHANGED <<handler, wh, w, clientVars>>

\* the rest of h.HandleRequest(r): the signature is verified with the
\* secret of the handler and the body parsed
HandleRequestFinish(i) ==
    /\ serving[i].stage = "read"
    /\ serving' = [serving EXCEPT ![i] =
           [@ EXCEPT !.stage = "done",
                     !.result = HandleRequest(handler.apiSecret, serving[i].r)]]
    /\ UNCHANGED <<handler, wh, w, clientVars>>

\* the goroutine has answered the request and ends
HandleFuncReturn(i) ==
    /\ serving[i].stage = "done"
    /\ serving' = [serving EXCEPT ![i] = NotServing]
    /\ UNCHANGED <<handler, wh, w, clientVars>>

(***************************************************************************)
(* Specifications                                                          *)
(***************************************************************************)

\* one caller using the client, one call after the other
NextClient ==
    \/ \E cfg \in Configs : NewClientCall(cfg)
    \/ \E ctx \in Contexts, p \in DepositParams : CreateDeposit(MainCaller, ctx, p)
    \/ \E ctx \in Contexts, p \in WithdrawalParams : CreateWithdrawal(MainCaller, ctx, p)
    \/ \E ctx \in Contexts, p \in StatusParams : CheckTransactionStatus(MainCaller, ctx, p)
    \/ \E ctx \in Contexts, p \in BalanceParams : FetchWalletBalance(MainCaller, ctx, p)
    \/ \E o \in {TransportFailure} \cup Responses : Do(MainCaller, o)
    \/ Return(MainCaller)

SpecClient == Init /\ [][NextClient]_vars

\* a webhook endpoint serving one request after the other
NextWebhook ==
    \/ \E k \in SecretSet : NewWebhookHandler(k)
    \/ \E b \in WebhookBodies, sig \in Signatures \cup {<<>>} : VerifySignatureCall(b, sig)
    \/ \E b \in WebhookBodies, sig \in Signatures \cup {<<>>} : ProcessWebhookCall(b, sig)
    \/ \E r \in Requests : HandleRequestCall(r)
    \/ SendSuccessResponse
    \/ SendErrorResponse
    \/ WebhookDone

SpecWebhook == Init /\ [][NextWebhook]_vars

\* several callers using one client, and several server goroutines using
\* one handler, in any interleaving
NextConcurrent ==
    \/ \E cfg \in ConcurrentConfigs : NewClientCall(cfg)
    \/ \E i \in Callers, p \in ConcurrentDeposits : CreateDeposit(i, "background", p)
    \/ \E i \in Callers, p \in ConcurrentWithdrawals : CreateWithdrawal(i, "background", p)
    \/ \E i \in Callers, p \in ConcurrentStatuses :
          CheckTransactionStatus(i, "background", p)
    \/ \E i \in Callers, p \in ConcurrentBalances : FetchWalletBalance(i, "background", p)
    \/ \E i \in Callers, o \in ConcurrentOutcomes : Do(i, o)
    \/ \E i \in Callers : Return(i)
    \/ \E k \in ConcurrentSecrets : NewWebhookHandler(k)
    \/ \E i \in Callers, r \in ConcurrentRequests : HandleRequestEnter(i, r)
    \/ \E i \in Callers : HandleRequestFinish(i)
    \/ \E i \in Callers : HandleFuncReturn(i)

SpecConcurrent == Init /\ [][NextConcurrent]_vars

Next == NextClient \/ NextWebhook \/ NextConcurrent

Spec == Init /\ [][Next]_vars

(***************************************************************************)
(* Properties of the webhook handler (SpecWebhook)                         *)
(***************************************************************************)

\* whether the signature is the lower-case hex HMAC of the body
RightSignature(secret, body, signature) ==
    signature = HexEncodeToString(HmacSum(secret, body))

\* whether the body is one well-formed JSON value that fits WebhookPayload
Decodes(body) == JsonUnmarshal(WebhookPayloadFields, body).err = ""

\* C1: whenever the signature does not verify, ProcessWebhook returns a nil
\* payload with the signature error and hands nothing to the JSON decoder,
\* also when the body is not valid JSON; a payload is returned only for a
\* signature that verifies.
C1_VerifyThenParse ==
    wh.op = "ProcessWebhook" =>
        /\ ~RightSignature(handler.apiSecret, wh.body, wh.signature) =>
              /\ wh.payload = NilPayload
              /\ wh.err = Err("invalid webhook signature")
              /\ wh.unmarshalled = <<>>
        /\ ~wh.payload.nil =>
              /\ RightSignature(handler.apiSecret, wh.body, wh.signature)
              /\ wh.verified = <<wh.body>>
              /\ wh.err = NoError

C1_Witness ==
    /\ wh.op = "ProcessWebhook"
    /\ ~RightSignature(handler.apiSecret, wh.body, wh.signature)
    /\ ~Decodes(wh.body)
    /\ wh.signature # <<>>
    /\ wh.err = Err("invalid webhook signature")
    /\ wh.unmarshalled = <<>>

\* C2: VerifySignature(body, sig) is true exactly when sig is the hex
\* HMAC of body under the configured secret; once true, any other signature
\* and any other body make it false; the result is a boolean, with no error.
C2_VerifySignatureIff ==
    wh.op = "VerifySignature" =>
        /\ wh.valid \in BOOLEAN
        /\ wh.err = NoError
        /\ wh.valid <=> RightSignature(handler.apiSecret, wh.body, wh.signature)
        /\ wh.valid =>
              /\ \A sig \in Signatures \cup {<<>>} :
                    sig # wh.signature =>
                        ~VerifySignature(handler.apiSecret, wh.body, sig)
              /\ \A b \in WebhookBodies :
                    b # wh.body => ~VerifySignature(handler.apiSecret, b, wh.signature)

C2_Witness ==
    /\ wh.op = "VerifySignature"
    /\ wh.valid
    /\ Len(wh.body) > 1
    /\ \E b \in WebhookBodies, k \in 1..Len(wh.body) :
          /\ Len(b) = Len(wh.body)
          /\ b[k] # wh.body[k]
          /\ \A j \in 1..Len(b) : j # k => b[j] = wh.body[j]
          /\ ~VerifySignature(handler.apiSecret, b, wh.signature)

\* C7: whatever the webhook call returned, the acknowledgment has status
\* 200: SendSuccessResponse writes {"received": true}, SendErrorResponse
\* writes {"received": false, "error": the error's message}.
C7_AlwaysStatusOK ==
    /\ [](/\ w.wroteHeader <=> w.body # <<>>
          /\ w.wroteHeader =>
                /\ w.status = 200
                /\ w.contentType = "application/json"
                /\ \A k \in 1..Len(w.body) :
                      \/ w.body[k] = [received |-> TRUE, hasError |-> FALSE,
                                      error |-> NoError]
                      \/ /\ wh.err # NoError
                         /\ w.body[k] = [received |-> FALSE, hasError |-> TRUE,
                                         error |-> wh.err])
    /\ [][SendErrorResponse =>
             /\ w'.status = 200
             /\ w'.body[Len(w'.body)] =
                   [received |-> FALSE, hasError |-> TRUE, error |-> wh.err]]_vars
    /\ [][SendSuccessResponse =>
             /\ w'.status = 200
             /\ w'.body[Len(w'.body)] =
                   [received |-> TRUE, hasError |-> FALSE, error |-> NoError]]_vars

C7_Witness ==
    /\ wh.op = "HandleRequest"
    /\ wh.err = Err("invalid webhook signature")
    /\ w.status = 200
    /\ w.body = <<[received |-> FALSE, hasError |-> TRUE, error |-> wh.err]>>

\* C8: HandleRequest fails with the missing-signature error, the body
\* unread, when the signature header is absent or empty; otherwise, when
\* the body is read without error, it returns the payload and the error of
\* ProcessWebhook on the bytes read and the header's signature, and the
\* bytes verified are the bytes read.
C8_HandleRequestIsProcessWebhook ==
    wh.op = "HandleRequest" =>
        IF SignatureHeader \notin DOMAIN wh.header \/ wh.signature = <<>>
        THEN /\ wh.err = Err("missing SagaPay signature in headers")
             /\ wh.payload = NilPayload
             /\ ~wh.read
             /\ wh.verified = <<>>
        ELSE ~wh.readFails =>
             LET res == ProcessWebhook(handler.apiSecret, wh.body, wh.signature) IN
             /\ wh.read
             /\ wh.payload = res.payload
             /\ wh.err = res.err
             /\ wh.verified = <<wh.body>>
             /\ wh.unmarshalled = res.unmarshalled

C8_Witness ==
    /\ wh.op = "HandleRequest"
    /\ ~wh.payload.nil
    /\ \E k \in 1..Len(wh.body) : wh.body[k] = " "
    /\ wh.payload.fields.status = "COMPLETED"
    /\ wh.verified = <<wh.body>>

(***************************************************************************)
(* Properties of the client (SpecClient)                                   *)
(***************************************************************************)

\* whether a field the operation requires is empty
RequiredEmpty(op, p) ==
    CASE op = "CreateDeposit" ->
           p.NetworkType = "" \/ p.ContractAddress = "" \/ p.Amount = "" \/ p.IPNUrl = ""
      [] op = "CreateWithdrawal" ->
           \/ p.NetworkType = "" \/ p.ContractAddress = "" \/ p.Address = ""
           \/ p.Amount = "" \/ p.IPNUrl = ""
      [] OTHER -> p.Address = ""

\* whether the error body decodes as a structured error
ParsesAsAPIError(body) == JsonDecode(APIErrorFields, body).err = ""

\* C3: a response with status >= 400 whose body parses as a structured
\* error makes the call fail with an APIError whose code and message are
\* those of the body and whose status field is the HTTP status.
C3_APIErrorCarriesStatus ==
    \A i \in Callers :
        (/\ pc[i] = "done"
         /\ got[i].kind = "response"
         /\ got[i].status >= 400
         /\ ParsesAsAPIError(got[i].body)) =>
            LET f == JsonDecode(APIErrorFields, got[i].body).fields IN
            /\ ret[i].err.kind = "api"
            /\ ret[i].err.Error = f.error
            /\ ret[i].err.Message = f.message
            /\ ret[i].err.Code = got[i].status

\* C4: Validate of the deposit parameters succeeds exactly when
\* networkType, contractAddress, amount and ipnUrl are all non-empty, that
\* of the withdrawal parameters exactly when address is non-empty as well;
\* udf and type never change the result; a call with a required field
\* empty returns a validation error.
C4_ValidateIff ==
    /\ \A p \in DepositParams :
          /\ DepositValidate(p) = "" <=> ~RequiredEmpty("CreateDeposit", p)
          /\ \A u \in {"", "order-123"}, t \in {"", "TEMPORARY"} :
                DepositValidate([p EXCEPT !.UDF = u, !.Type = t]) = DepositValidate(p)
    /\ \A p \in WithdrawalParams :
          /\ WithdrawalValidate(p) = "" <=> ~RequiredEmpty("CreateWithdrawal", p)
          /\ \A u \in {"", "withdrawal-456"} :
                WithdrawalValidate([p EXCEPT !.UDF = u]) = WithdrawalValidate(p)
    /\ \A i \in Callers :
          (pc[i] # "idle" /\ call[i].op \in {"CreateDeposit", "CreateWithdrawal"}) =>
              (/\ pc[i] = "done"
               /\ ret[i].err.kind = "validation")
                  <=> RequiredEmpty(call[i].op, call[i].params)

C4_Witness ==
    /\ pc[MainCaller] = "done"
    /\ call[MainCaller].op = "CreateWithdrawal"
    /\ call[MainCaller].params.Address = ""
    /\ call[MainCaller].params.NetworkType # ""
    /\ call[MainCaller].params.ContractAddress # ""
    /\ call[MainCaller].params.Amount # ""
    /\ call[MainCaller].params.IPNUrl # ""
    /\ call[MainCaller].params.UDF # ""
    /\ ret[MainCaller].err = PlainErr("validation", "address is required")

\* C5: validation comes before any network I/O: a call whose parameters
\* fail validation returns the validation error without a request built or
\* sent, and a request is only ever sent for parameters that pass it.
C5_ValidationBeforeNetwork ==
    \A i \in Callers :
        /\ (pc[i] # "idle" /\ RequiredEmpty(call[i].op, call[i].params)) =>
              /\ pc[i] = "done"
              /\ sent[i] = <<>>
              /\ pending[i] = NilRequest
              /\ got[i] = NoResponse
              /\ ret[i].err.kind = "validation"
              /\ ret[i].nilResponse
        /\ (pc[i] = "do" \/ sent[i] # <<>>) =>
              ~RequiredEmpty(call[i].op, call[i].params)

C5_Witness ==
    /\ pc[MainCaller] = "done"
    /\ call[MainCaller].op = "FetchWalletBalance"
    /\ call[MainCaller].params.Address = ""
    /\ call[MainCaller].params.NetworkType # ""
    /\ ret[MainCaller].err = PlainErr("validation", "address is required")
    /\ sent[MainCaller] = <<>>

\* whether NewClient has been called
Constructed == ~(client.nil /\ newErr.kind = "nil")

\* the base URL the configuration stands for
C6_BaseURL == IF config.BaseURL = "" THEN "https://api.sagapay.net" ELSE config.BaseURL

C6_Holds ==
    /\ ~client.nil
    /\ newErr = NilErr
    /\ client.apiKey = config.APIKey
    /\ client.apiSecret = config.APISecret
    /\ client.baseURL = UrlParse(C6_BaseURL)

C6_Fails == client = NilClient /\ newErr.kind = "config"

\* C6 as claimed: NewClient fails with a configuration error if the key or
\* the secret is empty or the base URL does not parse as a valid absolute
\* URL, and otherwise returns a client holding key, secret and base URL.
C6_RejectsNonAbsoluteURL ==
    Constructed =>
        IF \/ config.APIKey = ""
           \/ config.APISecret = ""
           \/ ~(UrlParse(C6_BaseURL).ok /\ IsAbs(UrlParse(C6_BaseURL)))
        THEN C6_Fails
        ELSE C6_Holds

\* C6, amended: NewClient fails with a configuration error if the key or
\* the secret is empty or url.Parse rejects the base URL (a relative
\* reference parses and is accepted), and otherwise returns a client
\* holding key, secret and the parsed base URL.
C6_RejectsUnparsableURL ==
    Constructed =>
        IF \/ config.APIKey = ""
           \/ config.APISecret = ""
           \/ ~UrlParse(C6_BaseURL).ok
        THEN C6_Fails
        ELSE C6_Holds

C6_Witness ==
    /\ Constructed
    /\ config.BaseURL = "api.sagapay.net"
    /\ ~client.nil
    /\ ~IsAbs(client.baseURL)
    /\ client.apiKey = "k"
    /\ client.apiSecret = "s"

\* the values a request carries for a header
HeaderValues(req, name) ==
    {req.header[k][2] : k \in {j \in 1..Len(req.header) : req.header[j][1] = name}}

CarriesAllHeaders(req) ==
    /\ HeaderValues(req, "Content-Type") = {"application/json"}
    /\ HeaderValues(req, "Accept") = {"application/json"}
    /\ HeaderValues(req, "x-api-key") = {config.APIKey}
    /\ HeaderValues(req, "x-api-secret") = {config.APISecret}

\* C9: every request of the four operations carries Content-Type and
\* Accept application/json and the two credential headers with the raw key
\* and secret given at construction; none reaches the transport without.
C9_EveryRequestAuthenticated ==
    \A i \in Callers :
        /\ pc[i] = "do" => CarriesAllHeaders(pending[i])
        /\ \A k \in 1..Len(sent[i]) : CarriesAllHeaders(sent[i][k])

C9_Witness ==
    /\ Len(sent[MainCaller]) = 1
    /\ sent[MainCaller][1].method = "GET"
    /\ HeaderValues(sent[MainCaller][1], "x-api-key") = {"k"}
    /\ HeaderValues(sent[MainCaller][1], "x-api-secret") = {"s"}

\* C10: no retries: a call sends at most one request, whatever the
\* transport returns, and has returned once the transport has answered.
C10_AtMostOneRequest ==
    \A i \in Callers :
        /\ Len(sent[i]) <= 1
        /\ got[i] # NoResponse => (pc[i] = "done" /\ Len(sent[i]) = 1)
        /\ pc[i] = "done" => ret[i].returned
        /\ pc[i] = "do" => sent[i] = <<>>

C10_Witness ==
    /\ pc[MainCaller] = "done"
    /\ got[MainCaller] = TransportFailure
    /\ Len(sent[MainCaller]) = 1
    /\ ret[MainCaller].err.kind = "transport"

\* C11: a response with status >= 400 whose body cannot be parsed as a
\* structured error makes the call fail with a generic error, not an
\* APIError, that names the status code; the call returns, without a
\* response.
C11_UnparsableErrorBody ==
    \A i \in Callers :
        (/\ pc[i] = "done"
         /\ got[i].kind = "response"
         /\ got[i].status >= 400
         /\ ~ParsesAsAPIError(got[i].body)) =>
            /\ ret[i].returned
            /\ ret[i].nilResponse
            /\ ret[i].err.kind = "http"
            /\ ret[i].err.msg = "HTTP error: %d - failed to parse error response"
            /\ ret[i].err.status = got[i].status
            /\ ret[i].err.Error = "" /\ ret[i].err.Message = ""

C11_Witness ==
    /\ pc[MainCaller] = "done"
    /\ call[MainCaller].op = "CreateWithdrawal"
    /\ got[MainCaller].kind = "response"
    /\ got[MainCaller].status = 401
    /\ got[MainCaller].body = <<"oops">>
    /\ ret[MainCaller].err.kind = "http"
    /\ ret[MainCaller].err.status = 401

\* the keys and the value of a key in an encoded query
QueryKeys(req) == {req.query[k][1] : k \in 1..Len(req.query)}

QueryValues(req, key) ==
    {req.query[k][2] : k \in {j \in 1..Len(req.query) : req.query[j][1] = key}}

\* C13: FetchWalletBalance with a non-empty address sends a GET whose query
\* holds address and networkType, and contractAddress exactly when that
\* argument is non-empty; CheckTransactionStatus with a non-empty address
\* sends a GET whose query holds exactly address and type; neither has a
\* request body.
C13_GetQueries ==
    \A i \in Callers :
        \A k \in 1..Len(sent[i]) :
            LET req == sent[i][k]
                p == call[i].params
            IN  /\ call[i].op = "FetchWalletBalance" =>
                      /\ p.Address # ""
                      /\ req.method = "GET"
                      /\ req.path = "/fetch-wallet-balance"
                      /\ ~req.hasBody /\ req.body = <<>>
                      /\ Len(req.query) = Cardinality(QueryKeys(req))
                      /\ QueryKeys(req) =
                            {"address", "networkType"} \cup
                            (IF p.ContractAddress # "" THEN {"contractAddress"} ELSE {})
                      /\ QueryValues(req, "address") = {p.Address}
                      /\ QueryValues(req, "networkType") = {p.NetworkType}
                      /\ p.ContractAddress # "" =>
                            QueryValues(req, "contractAddress") = {p.ContractAddress}
                /\ call[i].op = "CheckTransactionStatus" =>
                      /\ p.Address # ""
                      /\ req.method = "GET"
                      /\ req.path = "/check-transaction-status"
                      /\ ~req.hasBody /\ req.body = <<>>
                      /\ Len(req.query) = Cardinality(QueryKeys(req))
                      /\ QueryKeys(req) = {"address", "type"}
                      /\ QueryValues(req, "address") = {p.Address}
                      /\ QueryValues(req, "type") = {p.TransactionType}

C13_Witness ==
    /\ Len(sent[MainCaller]) = 1
    /\ call[MainCaller].op = "FetchWalletBalance"
    /\ call[MainCaller].params.ContractAddress = ""
    /\ call[MainCaller].params.NetworkType = "ERC20"
    /\ QueryKeys(sent[MainCaller][1]) = {"address", "networkType"}

\* C14 as claimed: a client constructed with a zero or negative
\* Config.Timeout uses a transport with a 30-second timeout, one
\* constructed with a positive timeout uses that value.
C14_TimeoutAlwaysFromConfig ==
    ~client.nil =>
        client.client.Timeout = (IF config.Timeout > 0 THEN config.Timeout ELSE 30)

\* C14, amended: when no HTTP client is given in the configuration, the
\* transport has a 30-second timeout for a zero or negative Config.Timeout
\* and the configured timeout for a positive one; when an HTTP client is
\* given, the client uses it as it is and Config.Timeout is ignored. The
\* transport of a client never changes afterwards.
C14_TimeoutUnlessClientGiven ==
    /\ [](~client.nil =>
            /\ ~client.client.nil
            /\ IF config.HTTPClient.nil
               THEN /\ ~client.client.custom
                    /\ client.client.Timeout =
                          (IF config.Timeout > 0 THEN config.Timeout ELSE 30)
               ELSE client.client = config.HTTPClient)
    /\ [][~client.nil => client'.client = client.client]_vars

C14_Witness ==
    /\ ~client.nil
    /\ config.HTTPClient.nil
    /\ config.Timeout < 0
    /\ client.client.Timeout = 30
    /\ Len(sent[MainCaller]) = 1

\* C15: every call returns exactly one of a response and an error: the
\* response is non-nil exactly when the error is nil, on the paths of
\* validation failure, request failure, transport failure, status >= 400,
\* undecodable success body and success.
C15_ResponseXorError ==
    \A i \in Callers :
        /\ pc[i] = "done" <=> ret[i].returned
        /\ ret[i].returned =>
              /\ ~ret[i].nilResponse <=> ret[i].err = NilErr
              /\ ret[i].nilResponse => ret[i].fields = <<>>
              /\ ~ret[i].nilResponse =>
                    /\ got[i].kind = "response"
                    /\ got[i].status < 400
                    /\ ret[i].fields =
                          JsonDecode(ResponseFields(call[i].op), got[i].body).fields

C15_Witness ==
    /\ pc[MainCaller] = "done"
    /\ call[MainCaller].op = "CreateDeposit"
    /\ got[MainCaller].kind = "response"
    /\ got[MainCaller].status = 200
    /\ got[MainCaller].body = <<"{">>
    /\ ret[MainCaller].nilResponse
    /\ ret[MainCaller].err.kind = "decode"

\* what a call returns, and what it sends, when it runs alone on client c
\* and the transport answers with the outcome
RunAlone(c, cl, outcome) ==
    LET v == Validate(cl.op, cl.params)
        b == OperationRequest(c, cl.op, cl.ctx, cl.params)
    IN  IF v # ""
        THEN [sent |-> <<>>,
              ret |-> [NoReturn EXCEPT !.returned = TRUE, !.err = PlainErr("validation", v)]]
        ELSE IF b.err.kind # "nil"
        THEN [sent |-> <<>>, ret |-> [NoReturn EXCEPT !.returned = TRUE, !.err = b.err]]
        ELSE [sent |-> <<b.req>>,
              ret |-> IF outcome.kind = "error"
                      THEN [NoReturn EXCEPT !.returned = TRUE,
                                            !.err = PlainErr("transport", "Do")]
                      ELSE LET r == ReadResponse(cl.op, outcome) IN
                           IF r.err.kind # "nil"
                           THEN [NoReturn EXCEPT !.returned = TRUE, !.err = r.err]
                           ELSE [returned |-> TRUE, nilResponse |-> FALSE,
                                 fields |-> r.fields, err |-> NilErr]]

\* the state of caller i: its client call and its webhook request
CallerState(i) == <<pc[i], call[i], pending[i], sent[i], got[i], ret[i], serving[i]>>

\* C12: no step changes the client or the handler once constructed; a step
\* changes the call state of one caller at most; and in every interleaving
\* the request of a call in flight, the requests sent and the result of a
\* finished call, and the result of a finished HandleRequest, are those of
\* the call run alone.
C12_ConcurrentUse ==
    /\ [][/\ ~client.nil => client' = client /\ config' = config
          /\ ~handler.nil => handler' = handler
          /\ \A i, j \in Callers :
                (i # j /\ CallerState(i)' # CallerState(i)) =>
                    CallerState(j)' = CallerState(j)]_vars
    /\ [](\A i \in Callers :
            /\ pc[i] = "do" =>
                  /\ pending[i] = OperationRequest(client, call[i].op, call[i].ctx,
                                                   call[i].params).req
                  /\ sent[i] = <<>> /\ ~ret[i].returned
            /\ pc[i] = "done" =>
                  /\ sent[i] = RunAlone(client, call[i], got[i]).sent
                  /\ ret[i] = RunAlone(client, call[i], got[i]).ret
            /\ serving[i].stage = "done" =>
                  serving[i].result = HandleRequest(handler.apiSecret, serving[i].r))

C12_Witness ==
    \E i, j \in Callers :
        /\ pc[i] = "done" /\ pc[j] = "done"
        /\ call[i].op = "CreateDeposit" /\ call[j].op = "FetchWalletBalance"
        /\ got[i].kind = "response" /\ got[i].status = 200
        /\ got[j].kind = "response" /\ got[j].status = 401
        /\ ~ret[i].nilResponse /\ ret[j].err.kind = "api"
        /\ serving[i].stage = "done" /\ serving[i].result.err = NoError
        /\ serving[j].stage = "done" /\ serving[j].result.err # NoError

====
